---- MODULE Spec2Model ----
(***************************************************************************)
(* Model of src/src/models.py: the data classes DocumentChunk,             *)
(* ConversationMessage, SearchResult, WebSource and ConversationSession,   *)
(* their derived properties, their mutators and their to_dict / from_dict  *)
(* converters.                                                             *)
(*                                                                         *)
(* Conventions                                                             *)
(*  - Optional[T] is a sequence: None is <<>>, a value v is <<v>>.         *)
(*  - A datetime is [whole |-> n, micro |-> u]: n counts clock ticks       *)
(*    (TicksPerDay of them make a day) and u is the microsecond field,     *)
(*    0 <= u < MicroPerTick.                                               *)
(*  - A float score is an integer number of 1/10000 (0.7 is 7000).         *)
(*  - A dict is a record; a metadata dict is a set of <<key, value>>.      *)
(***************************************************************************)
EXTENDS Integers, Sequences, FiniteSets, TLC

VARIABLES
    now,        \* the wall clock read by datetime.now()
    ws,         \* the WebSource instance
    lastOp,     \* history: the last operation that wrote the instance under test
    prev,       \* history: what that operation replaced (ws.status, the session)
    lastArgs,   \* arguments of the most recent call (mark_scraped, add_message,
                \* get_recent_messages, DocumentChunk(...)), or <<>>
    session,    \* the ConversationSession instance
    chunk,      \* Optional DocumentChunk instance
    result,     \* sequence of SearchResult instances
    pc,         \* position of the scenario of the specification being run
    ret         \* value returned by the last read operation

vars == <<now, ws, lastOp, prev, lastArgs, session, chunk, result, pc, ret>>

----------------------------------------------------------------------------
(* Bounds of the model *)

TicksPerDay == 2
MicroPerTick == 2
MaxDays == 31
\* the scraper and the operator act during the first MaxCallTick clock ticks
MaxCallTick == 3
\* a session holds at most MaxMessages messages, the clock reaches MaxSessionTick
MaxMessages == 3
MaxSessionTick == 2
\* scores range from -ScoreBelow/10000 to 1 + ScoreAbove/10000
ScoreBelow == 500
ScoreAbove == 500
\* DocumentChunk offsets given by the caller
MaxStartChar == 2
\* messages appended before a session is written by to_dict
MaxRoundTripMessages == 2
\* the clock tick reached before an entity is written by to_dict
MaxRoundTripTick == 1

----------------------------------------------------------------------------
(* Python helpers *)

None == <<>>
Some(v) == <<v>>

\* truthiness as tested by `if x`, `not x` and `x or d`, per type of x
TruthyOpt(x) == x # None
TruthyStr(s) == s # ""
TruthyInt(n) == n # 0

\* timedelta of a - b in microsecond units
TimeDiff(a, b) ==
    (a.whole * MicroPerTick + a.micro) - (b.whole * MicroPerTick + b.micro)

\* timedelta.days: the normalised day field, floor(total / one day)
TimedeltaDays(td) == td \div (TicksPerDay * MicroPerTick)

DateTime(w, u) == [whole |-> w, micro |-> u]

EmptyMeta == {}

----------------------------------------------------------------------------
(* WebSource *)

WebSource(url, title, content, last_scraped, scrape_frequency, status, content_type, quality_score, metadata, error_message, chunk_count) ==
    [url |-> url, title |-> title, content |-> content,
     last_scraped |-> last_scraped, scrape_frequency |-> scrape_frequency,
     status |-> status, content_type |-> content_type,
     quality_score |-> quality_score, metadata |-> metadata,
     error_message |-> error_message, chunk_count |-> chunk_count]

\* WebSource(url=..., scrape_frequency=...) with every other field defaulted
NewWebSource(url, freq) ==
    WebSource(url, "", "", None, freq, "pending", "unknown", 0, EmptyMeta, "", 0)

\* frequency_days.get(self.scrape_frequency, 30); float('inf') is [inf |-> TRUE]
frequency_days_get(freq) ==
    CASE freq = "daily"   -> [inf |-> FALSE, n |-> 1]
      [] freq = "weekly"  -> [inf |-> FALSE, n |-> 7]
      [] freq = "monthly" -> [inf |-> FALSE, n |-> 30]
      [] freq = "manual"  -> [inf |-> TRUE,  n |-> 0]
      [] OTHER            -> [inf |-> FALSE, n |-> 30]

\* int >= float comparison against a threshold that may be float('inf')
GeThreshold(days, thr) == IF thr.inf THEN FALSE ELSE days >= thr.n

\* mutant: the threshold day itself is not yet stale (> for >=)
is_stale_gt(w, clock) ==
    IF w.last_scraped = None
    THEN TRUE
    ELSE LET days == TimedeltaDays(TimeDiff(clock, w.last_scraped[1]))
             thr  == frequency_days_get(w.scrape_frequency)
         IN  IF thr.inf THEN FALSE ELSE days > thr.n

is_stale(w, clock) ==
    IF ~TruthyOpt(w.last_scraped)
    THEN TRUE
    ELSE LET time_diff      == TimeDiff(clock, w.last_scraped[1])
             threshold_days == frequency_days_get(w.scrape_frequency)
         IN  GeThreshold(TimedeltaDays(time_diff), threshold_days)

is_high_quality(w) == w.quality_score >= 7000

\* mutant: the scrape time is not stamped
mark_scraped_nostamp(w, content, title, quality_score, clock) ==
    [w EXCEPT !.content = content,
              !.title = title,
              !.status = "scraped",
              !.quality_score = quality_score,
              !.error_message = ""]

mark_scraped(w, content, title, quality_score, clock) ==
    [w EXCEPT !.content = content,
              !.title = title,
              !.last_scraped = Some(clock),
              !.status = "scraped",
              !.quality_score = quality_score,
              !.error_message = ""]

\* mutant: an excluded source is left alone
mark_failed_sticky(w, error_message, clock) ==
    IF w.status = "excluded"
    THEN w
    ELSE [w EXCEPT !.status = "failed",
                   !.error_message = error_message,
                   !.last_scraped = Some(clock)]

\* mutant: a failure drops the stale content and its score
mark_failed_clears(w, error_message, clock) ==
    [w EXCEPT !.status = "failed",
              !.error_message = error_message,
              !.last_scraped = Some(clock),
              !.content = "",
              !.quality_score = 0]

\* mutant: a failure does not stamp the attempt
mark_failed_nostamp(w, error_message, clock) ==
    [w EXCEPT !.status = "failed",
              !.error_message = error_message]

mark_failed(w, error_message, clock) ==
    [w EXCEPT !.status = "failed",
              !.error_message = error_message,
              !.last_scraped = Some(clock)]

----------------------------------------------------------------------------
(* Enumerations: a member is named as in the source, its value is .value *)

DocumentTypeMembers == {"PDF", "DOCX", "MD", "TXT", "WEB", "UNKNOWN"}

DocumentTypeValue(member) ==
    CASE member = "PDF"     -> "pdf"
      [] member = "DOCX"    -> "docx"
      [] member = "MD"      -> "markdown"
      [] member = "TXT"     -> "text"
      [] member = "WEB"     -> "web"
      [] member = "UNKNOWN" -> "unknown"

ContentSourceMembers == {"LOCAL_DOCUMENT", "WEB_SCRAPE", "FORUM_POST", "DOCUMENTATION", "MANUAL"}

ContentSourceValue(member) ==
    CASE member = "LOCAL_DOCUMENT" -> "local_document"
      [] member = "WEB_SCRAPE"     -> "web_scrape"
      [] member = "FORUM_POST"     -> "forum_post"
      [] member = "DOCUMENTATION"  -> "documentation"
      [] member = "MANUAL"         -> "manual"

----------------------------------------------------------------------------
(* DocumentChunk.  source_file and content are character sequences: the    *)
(* code looks inside them (suffix, len, split).                            *)

UpperLetters == <<"A", "B", "C", "D", "E", "F", "G", "H", "I", "J", "K", "L", "M", "N", "O", "P", "Q", "R", "S", "T", "U", "V", "W", "X", "Y", "Z">>
LowerLetters == <<"a", "b", "c", "d", "e", "f", "g", "h", "i", "j", "k", "l", "m", "n", "o", "p", "q", "r", "s", "t", "u", "v", "w", "x", "y", "z">>

\* str.lower()
LowerChar(c) ==
    IF \E i \in 1..Len(UpperLetters) : UpperLetters[i] = c
    THEN LowerLetters[CHOOSE i \in 1..Len(UpperLetters) : UpperLetters[i] = c]
    ELSE c

Lower(str) == [i \in 1..Len(str) |-> LowerChar(str[i])]

\* str.rfind(ch) + 1: the last position of ch, 0 when absent
LastIndexOf(str, ch) ==
    IF \E i \in 1..Len(str) : str[i] = ch
    THEN CHOOSE i \in 1..Len(str) : str[i] = ch /\ \A j \in (i + 1)..Len(str) : str[j] # ch
    ELSE 0

RECURSIVE StripTrailingSlashes(_)
StripTrailingSlashes(str) ==
    IF Len(str) > 1 /\ str[Len(str)] = "/"
    THEN StripTrailingSlashes(SubSeq(str, 1, Len(str) - 1))
    ELSE str

\* Path(p).name: the final path component
PathName(p) ==
    LET q == StripTrailingSlashes(p)
    IN  SubSeq(q, LastIndexOf(q, "/") + 1, Len(q))

\* Path(p).suffix: from the last dot of the name, unless the dot leads or ends it
PathSuffix(p) ==
    LET name == PathName(p)
        i    == LastIndexOf(name, ".")
    IN  IF 1 < i /\ i < Len(name) THEN SubSeq(name, i, Len(name)) ELSE <<>>

\* type_mapping.get(suffix, DocumentType.UNKNOWN)
type_mapping_get(suffix) ==
    CASE suffix = <<".", "p", "d", "f">>      -> "PDF"
      [] suffix = <<".", "d", "o", "c", "x">> -> "DOCX"
      [] suffix = <<".", "m", "d">>           -> "MD"
      [] suffix = <<".", "t", "x", "t">>      -> "TXT"
      [] suffix = <<".", "h", "t", "m", "l">> -> "WEB"
      [] suffix = <<".", "h", "t", "m">>      -> "WEB"
      [] OTHER                                -> "UNKNOWN"

_detect_document_type(source_file) == type_mapping_get(Lower(PathSuffix(source_file)))

\* the dataclass __init__ (absent arguments take their defaults, absent is
\* None here) followed by __post_init__
DocumentChunk(content, source_file, chunk_id, start_char, end_char, metadata, embedding, document_type, content_source, created_at) ==
    LET end0  == IF end_char = None THEN 0 ELSE end_char[1]
        type0 == IF document_type = None THEN "UNKNOWN" ELSE document_type[1]
        src0  == IF content_source = None THEN "LOCAL_DOCUMENT" ELSE content_source[1]
    IN  [content |-> content, source_file |-> source_file, chunk_id |-> chunk_id,
         start_char |-> start_char,
         end_char |-> IF ~TruthyInt(end0) /\ content # <<>>
                      THEN start_char + Len(content)
                      ELSE end0,
         metadata |-> metadata, embedding |-> embedding,
         document_type |-> IF type0 = "UNKNOWN" /\ source_file # <<>>
                           THEN _detect_document_type(source_file)
                           ELSE type0,
         content_source |-> src0, created_at |-> created_at]

length(c) == Len(c.content)

IsSpace(ch) == ch \in {" ", "\t", "\n"}

\* len(self.content.split()): the maximal runs of non-whitespace characters
word_count(c) ==
    Cardinality({i \in 1..Len(c.content) :
                    /\ ~IsSpace(c.content[i])
                    /\ (i = 1 \/ IsSpace(c.content[i - 1]))})

----------------------------------------------------------------------------
(* SearchResult *)

SearchResult(content, source, score, chunk_id, metadata, document_type, content_source, timestamp) ==
    [content |-> content, source |-> source, score |-> score, chunk_id |-> chunk_id,
     metadata |-> metadata, document_type |-> document_type,
     content_source |-> content_source, timestamp |-> timestamp]

is_relevant(r) == r.score >= 7000

\* mutant: the top tier starts above 0.9
relevance_level_strict(r) ==
    IF r.score > 9000 THEN "Very High"
    ELSE IF r.score >= 8000 THEN "High"
    ELSE IF r.score >= 7000 THEN "Medium"
    ELSE IF r.score >= 5000 THEN "Low"
    ELSE "Very Low"

relevance_level(r) ==
    IF r.score >= 9000 THEN "Very High"
    ELSE IF r.score >= 8000 THEN "High"
    ELSE IF r.score >= 7000 THEN "Medium"
    ELSE IF r.score >= 5000 THEN "Low"
    ELSE "Very Low"

----------------------------------------------------------------------------
(* ConversationMessage and ConversationSession *)

\* f"{role}_{timestamp.strftime('%Y%m%d_%H%M%S_%f')}": a str is a sequence here
FormatMessageId(role, timestamp) == <<role, "_", timestamp.whole, timestamp.micro>>

\* ConversationMessage(...) followed by __post_init__
ConversationMessage(role, content, timestamp, message_id, sources, metadata, token_count) ==
    [role |-> role, content |-> content, timestamp |-> timestamp,
     message_id |-> IF message_id = <<>>
                    THEN FormatMessageId(role, timestamp)
                    ELSE message_id,
     sources |-> sources, metadata |-> metadata, token_count |-> token_count]

ConversationSession(session_id, messages, created_at, last_activity, metadata) ==
    [session_id |-> session_id, messages |-> messages, created_at |-> created_at,
     last_activity |-> last_activity, metadata |-> metadata]

\* mutant: the activity stamp is left alone
add_message_nobump(s, message, clock) ==
    [s EXCEPT !.messages = Append(@, message)]

add_message(s, message, clock) ==
    [s EXCEPT !.messages = Append(@, message),
              !.last_activity = clock]

\* seq[start:] of a Python list, start possibly negative
SliceFrom(seq, start) ==
    LET n == Len(seq)
        lo == IF start < 0
              THEN (IF n + start < 0 THEN 0 ELSE n + start)
              ELSE (IF start > n THEN n ELSE start)
    IN  SubSeq(seq, lo + 1, n)

get_recent_messages(s, count) ==
    IF Len(s.messages) > count
    THEN SliceFrom(s.messages, -count)
    ELSE s.messages

message_count(s) == Len(s.messages)

\* msg.token_count or 0
TokenCountOrZero(msg) ==
    IF TruthyOpt(msg.token_count) /\ TruthyInt(msg.token_count[1])
    THEN msg.token_count[1]
    ELSE 0

RECURSIVE SumTokens(_)
SumTokens(msgs) ==
    IF msgs = <<>>
    THEN 0
    ELSE SumTokens(SubSeq(msgs, 1, Len(msgs) - 1)) + TokenCountOrZero(msgs[Len(msgs)])

\* mutant: only the latest message is counted
total_tokens_latest(s) ==
    IF s.messages = <<>> THEN 0 ELSE TokenCountOrZero(s.messages[Len(s.messages)])

total_tokens(s) == SumTokens(s.messages)

----------------------------------------------------------------------------
(* to_dict / from_dict.  A call returns Ok(value) or raises: Raise(error). *)

Ok(v) == [ok |-> TRUE, value |-> v, error |-> ""]
Raise(e) == [ok |-> FALSE, value |-> <<>>, error |-> e]

\* data.get(key, default)
Get(data, key, default) == IF key \in DOMAIN data THEN data[key] ELSE default

\* mutant: the microsecond field is not written (timespec='seconds')
isoformat_seconds(dt) == <<"T", dt.whole>>

\* datetime.isoformat(): the fraction is written only when microsecond # 0
isoformat(dt) ==
    IF dt.micro = 0
    THEN <<"T", dt.whole>>
    ELSE <<"T", dt.whole, ".", dt.micro>>

\* datetime.fromisoformat(str)
fromisoformat(str) ==
    IF Len(str) = 2 /\ str[1] = "T"
    THEN Ok(DateTime(str[2], 0))
    ELSE IF Len(str) = 4 /\ str[1] = "T" /\ str[3] = "."
    THEN Ok(DateTime(str[2], str[4]))
    ELSE Raise("ValueError")

\* DocumentType(value)
DocumentTypeOf(value) ==
    IF \E m \in DocumentTypeMembers : DocumentTypeValue(m) = value
    THEN Ok(CHOOSE m \in DocumentTypeMembers : DocumentTypeValue(m) = value)
    ELSE Raise("ValueError")

\* ContentSource(value)
ContentSourceOf(value) ==
    IF \E m \in ContentSourceMembers : ContentSourceValue(m) = value
    THEN Ok(CHOOSE m \in ContentSourceMembers : ContentSourceValue(m) = value)
    ELSE Raise("ValueError")

\* the first required key that data lacks, as data[key] raises KeyError
MissingKey(data, keys) ==
    IF \E i \in 1..Len(keys) : keys[i] \notin DOMAIN data
    THEN <<keys[CHOOSE i \in 1..Len(keys) :
                    /\ keys[i] \notin DOMAIN data
                    /\ \A j \in 1..(i - 1) : keys[j] \in DOMAIN data]>>
    ELSE <<>>

KeyError(missing) == Raise(<<"KeyError", missing[1]>>)

DocumentChunk_to_dict(c) ==
    [content |-> c.content, source_file |-> c.source_file, chunk_id |-> c.chunk_id,
     start_char |-> c.start_char, end_char |-> c.end_char, metadata |-> c.metadata,
     embedding |-> c.embedding,
     document_type |-> DocumentTypeValue(c.document_type),
     content_source |-> ContentSourceValue(c.content_source),
     created_at |-> isoformat(c.created_at),
     length |-> length(c), word_count |-> word_count(c)]

DocumentChunk_from_dict(data, clock) ==
    LET doc_type    == DocumentTypeOf(Get(data, "document_type", DocumentTypeValue("UNKNOWN")))
        content_src == ContentSourceOf(Get(data, "content_source", ContentSourceValue("LOCAL_DOCUMENT")))
        created_at  == fromisoformat(Get(data, "created_at", isoformat(clock)))
        missing     == MissingKey(data, <<"content", "source_file", "chunk_id">>)
    IN  IF ~doc_type.ok THEN doc_type
        ELSE IF ~content_src.ok THEN content_src
        ELSE IF ~created_at.ok THEN created_at
        ELSE IF missing # <<>> THEN KeyError(missing)
        ELSE Ok(DocumentChunk(data.content, data.source_file, data.chunk_id,
                              Get(data, "start_char", 0),
                              Some(Get(data, "end_char", 0)),
                              Get(data, "metadata", EmptyMeta),
                              Get(data, "embedding", None),
                              Some(doc_type.value), Some(content_src.value),
                              created_at.value))

ConversationMessage_to_dict(m) ==
    [role |-> m.role, content |-> m.content, timestamp |-> isoformat(m.timestamp),
     message_id |-> m.message_id, sources |-> m.sources, metadata |-> m.metadata,
     token_count |-> m.token_count]

ConversationMessage_from_dict(data, clock) ==
    LET timestamp == fromisoformat(Get(data, "timestamp", isoformat(clock)))
        missing   == MissingKey(data, <<"role", "content">>)
    IN  IF ~timestamp.ok THEN timestamp
        ELSE IF missing # <<>> THEN KeyError(missing)
        ELSE Ok(ConversationMessage(data.role, data.content, timestamp.value,
                                    Get(data, "message_id", <<>>),
                                    Get(data, "sources", <<>>),
                                    Get(data, "metadata", EmptyMeta),
                                    Get(data, "token_count", None)))

SearchResult_to_dict(r) ==
    [content |-> r.content, source |-> r.source, score |-> r.score,
     chunk_id |-> r.chunk_id, metadata |-> r.metadata,
     document_type |-> DocumentTypeValue(r.document_type),
     content_source |-> ContentSourceValue(r.content_source),
     timestamp |-> isoformat(r.timestamp),
     relevance_level |-> relevance_level(r), is_relevant |-> is_relevant(r)]

SearchResult_from_dict(data, clock) ==
    LET doc_type    == DocumentTypeOf(Get(data, "document_type", DocumentTypeValue("UNKNOWN")))
        content_src == ContentSourceOf(Get(data, "content_source", ContentSourceValue("LOCAL_DOCUMENT")))
        timestamp   == fromisoformat(Get(data, "timestamp", isoformat(clock)))
        missing     == MissingKey(data, <<"content", "source", "score">>)
    IN  IF ~doc_type.ok THEN doc_type
        ELSE IF ~content_src.ok THEN content_src
        ELSE IF ~timestamp.ok THEN timestamp
        ELSE IF missing # <<>> THEN KeyError(missing)
        ELSE Ok(SearchResult(data.content, data.source, data.score,
                             Get(data, "chunk_id", ""),
                             Get(data, "metadata", EmptyMeta),
                             doc_type.value, content_src.value, timestamp.value))

\* status_emojis.get(self.status, "UNKNOWN")
status_emoji(w) ==
    CASE w.status = "pending"  -> "PENDING"
      [] w.status = "scraped"  -> "SUCCESS"
      [] w.status = "failed"   -> "FAILED"
      [] w.status = "excluded" -> "EXCLUDED"
      [] OTHER                 -> "UNKNOWN"

WebSource_to_dict(w, clock) ==
    [url |-> w.url, title |-> w.title, content |-> w.content,
     last_scraped |-> IF TruthyOpt(w.last_scraped)
                      THEN isoformat(w.last_scraped[1])
                      ELSE None,
     scrape_frequency |-> w.scrape_frequency, status |-> w.status,
     content_type |-> w.content_type, quality_score |-> w.quality_score,
     metadata |-> w.metadata, error_message |-> w.error_message,
     chunk_count |-> w.chunk_count,
     is_stale |-> is_stale(w, clock), is_high_quality |-> is_high_quality(w),
     status_emoji |-> status_emoji(w)]

\* the empty str '' where None may stand too (None is <<>>)
EmptyStr == <<"">>

\* truthiness of a value that is None or a str
TruthyOptStr(x) == x # None /\ x # EmptyStr

WebSource_from_dict(data) ==
    LET raw          == Get(data, "last_scraped", None)
        last_scraped == IF TruthyOptStr(raw) THEN fromisoformat(raw) ELSE Ok(None)
    IN  IF ~last_scraped.ok THEN last_scraped
        ELSE IF "url" \notin DOMAIN data THEN KeyError(<<"url">>)
        ELSE Ok(WebSource(data.url, Get(data, "title", ""), Get(data, "content", ""),
                          IF TruthyOptStr(raw) THEN Some(last_scraped.value) ELSE None,
                          Get(data, "scrape_frequency", "monthly"),
                          Get(data, "status", "pending"),
                          Get(data, "content_type", "unknown"),
                          Get(data, "quality_score", 0),
                          Get(data, "metadata", EmptyMeta),
                          Get(data, "error_message", ""),
                          Get(data, "chunk_count", 0)))

ConversationSession_to_dict(s) ==
    [session_id |-> s.session_id,
     messages |-> [i \in 1..Len(s.messages) |-> ConversationMessage_to_dict(s.messages[i])],
     created_at |-> isoformat(s.created_at),
     last_activity |-> isoformat(s.last_activity),
     metadata |-> s.metadata,
     message_count |-> message_count(s), total_tokens |-> total_tokens(s)]

ConversationSession_from_dict(data, clock) ==
    LET raw           == Get(data, "messages", <<>>)
        messages      == [i \in 1..Len(raw) |-> ConversationMessage_from_dict(raw[i], clock)]
        created_at    == fromisoformat(Get(data, "created_at", isoformat(clock)))
        last_activity == fromisoformat(Get(data, "last_activity", isoformat(clock)))
    IN  IF \E i \in 1..Len(raw) : ~messages[i].ok
        THEN messages[CHOOSE i \in 1..Len(raw) :
                         ~messages[i].ok /\ \A j \in 1..(i - 1) : messages[j].ok]
        ELSE IF ~created_at.ok THEN created_at
        ELSE IF ~last_activity.ok THEN last_activity
        ELSE IF "session_id" \notin DOMAIN data THEN KeyError(<<"session_id">>)
        ELSE Ok(ConversationSession(data.session_id,
                                    [i \in 1..Len(raw) |-> messages[i].value],
                                    created_at.value, last_activity.value,
                                    Get(data, "metadata", EmptyMeta)))

----------------------------------------------------------------------------
(* Values left in the variables a specification does not use *)

NoWebSource == NewWebSource("", "")
NoSession == ConversationSession("", <<>>, DateTime(0, 0), DateTime(0, 0), EmptyMeta)
NoChunk == <<>>
NoResult == <<>>
NoRet == <<>>

----------------------------------------------------------------------------
(* Specification Spec: one registered WebSource, the scraper's mutators,   *)
(* the operator's exclusion and the passage of time.                       *)

Url == "https://docs.example.com/x"
Freqs == {"daily", "weekly", "monthly", "manual", "hourly"}
Contents == {"body text", "new body"}
Titles == {"", "Title"}
Qualities == {6900, 7000, 8200}
Errors == {"timeout", "HTTP 500"}

Init ==
    /\ now = DateTime(0, 0)
    /\ \E f \in Freqs : ws = NewWebSource(Url, f)
    /\ lastOp = "init"
    /\ prev = "pending"
    /\ lastArgs = <<>>
    /\ session = NoSession
    /\ chunk = NoChunk
    /\ result = NoResult
    /\ pc = "web"
    /\ ret = NoRet

MarkScraped(c, t, q) ==
    /\ now.whole <= MaxCallTick
    /\ ws' = mark_scraped(ws, c, t, q, now)
    /\ lastOp' = "mark_scraped"
    /\ prev' = ws.status
    /\ lastArgs' = <<c, t, q>>
    /\ UNCHANGED <<now, session, chunk, result, pc, ret>>

MarkFailed(e) ==
    /\ now.whole <= MaxCallTick
    /\ ws' = mark_failed(ws, e, now)
    /\ lastOp' = "mark_failed"
    /\ prev' = ws.status
    /\ UNCHANGED <<now, lastArgs, session, chunk, result, pc, ret>>

\* the operator's out-of-band write of ws.status
Exclude ==
    /\ now.whole <= MaxCallTick
    /\ ws.status # "excluded"
    /\ ws' = [ws EXCEPT !.status = "excluded"]
    /\ lastOp' = "exclude"
    /\ prev' = ws.status
    /\ UNCHANGED <<now, lastArgs, session, chunk, result, pc, ret>>

\* time passes by one clock tick
Tick ==
    /\ now.whole < MaxDays * TicksPerDay
    /\ now' = [now EXCEPT !.whole = @ + 1]
    /\ UNCHANGED <<ws, lastOp, prev, lastArgs, session, chunk, result, pc, ret>>

Next ==
    \/ \E c \in Contents, t \in Titles, q \in Qualities : MarkScraped(c, t, q)
    \/ \E e \in Errors : MarkFailed(e)
    \/ Exclude
    \/ Tick

Spec == Init /\ [][Next]_vars

Statuses == {"pending", "scraped", "failed", "excluded"}

\* C1: a WebSource starts 'pending'; mark_scraped leaves status 'scraped' and
\* mark_failed leaves status 'failed' from every current status, excluded
\* included, so after a mutator call the status is scraped or failed.
C1_MutatorsOverwriteStatus ==
    /\ (lastOp = "init" => ws.status = "pending")
    /\ (lastOp = "mark_scraped" => ws.status = "scraped")
    /\ (lastOp = "mark_failed" => ws.status = "failed")
    /\ (lastOp \in {"mark_scraped", "mark_failed"} /\ prev = "excluded"
            => ws.status \in {"scraped", "failed"})
    /\ \A st \in Statuses :
          LET w == [ws EXCEPT !.status = st]
          IN  /\ \A c \in Contents, t \in Titles, q \in Qualities :
                    mark_scraped(w, c, t, q, now).status = "scraped"
              /\ \A e \in Errors : mark_failed(w, e, now).status = "failed"

C1_Witness ==
    /\ lastOp = "mark_failed"
    /\ prev = "excluded"
    /\ ws.status = "failed"

\* C2: mark_failed writes status, error_message and last_scraped only; content,
\* title and quality_score are those of the most recent mark_scraped (or of
\* construction); error_message is '' after mark_scraped and the given
\* message after mark_failed.
C2_MarkFailedFrame ==
    /\ \A e \in Errors :
          LET w == mark_failed(ws, e, now)
          IN  /\ w.content = ws.content
              /\ w.title = ws.title
              /\ w.quality_score = ws.quality_score
              /\ w.chunk_count = ws.chunk_count
              /\ w.url = ws.url
              /\ w.scrape_frequency = ws.scrape_frequency
              /\ w.content_type = ws.content_type
              /\ w.metadata = ws.metadata
              /\ w.error_message = e
    /\ (lastOp \in {"init", "mark_scraped", "mark_failed"} =>
          IF lastArgs = <<>>
          THEN ws.content = "" /\ ws.title = "" /\ ws.quality_score = 0
          ELSE /\ ws.content = lastArgs[1]
               /\ ws.title = lastArgs[2]
               /\ ws.quality_score = lastArgs[3])
    /\ (lastOp = "mark_scraped" => ws.error_message = "")
    /\ (lastOp = "mark_failed" => ws.error_message \in Errors)

C2_Witness ==
    /\ lastOp = "mark_failed"
    /\ lastArgs # <<>>
    /\ ws.status = "failed"
    /\ ws.content = "new body"
    /\ ws.quality_score = 8200
    /\ ws.error_message = "HTTP 500"

\* whole days elapsed since the last stamp, clock and stamp on whole ticks
ElapsedDays == (now.whole - ws.last_scraped[1].whole) \div TicksPerDay

PolicyDays(freq) ==
    CASE freq = "daily" -> 1
      [] freq = "weekly" -> 7
      [] freq \in {"monthly", "hourly"} -> 30

\* C4: a new source is pending and stale; right after mark_scraped it is
\* scraped, not stale and high quality iff q >= 0.7; with no further call it
\* turns stale exactly when the frequency's threshold of whole days has
\* elapsed, and status, content, title and quality_score do not change as
\* time passes.
C4_Lifecycle ==
    /\ (lastOp = "init" => ws.status = "pending" /\ is_stale(ws, now))
    /\ (lastOp = "mark_scraped" =>
          /\ ws.status = "scraped"
          /\ ws.content = lastArgs[1]
          /\ ws.title = lastArgs[2]
          /\ ws.quality_score = lastArgs[3]
          /\ is_high_quality(ws) = (lastArgs[3] >= 7000)
          /\ ws.last_scraped # None
          /\ (now = ws.last_scraped[1] => ~is_stale(ws, now))
          /\ is_stale(ws, now) =
                (/\ ws.scrape_frequency # "manual"
                 /\ ElapsedDays >= PolicyDays(ws.scrape_frequency)))

C4_Witness ==
    /\ lastOp = "mark_scraped"
    /\ ws.scrape_frequency = "weekly"
    /\ lastArgs = <<"body text", "Title", 8200>>
    /\ ws.content = "body text"
    /\ is_high_quality(ws)
    /\ ElapsedDays = 8
    /\ is_stale(ws, now)

\* C13: mark_failed restarts the staleness clock as mark_scraped does.  In
\* the states reached by mark_scraped / mark_failed from a new source
\* last_scraped is unset iff status is 'pending'; right after mark_failed
\* is_stale is false for every scrape_frequency, and with no further call
\* it turns true exactly when the frequency's threshold of whole days has
\* elapsed since the failed attempt, never for 'manual'.
C13_MarkFailedRestartsClock ==
    /\ (lastOp # "exclude" => ((ws.last_scraped = None) <=> (ws.status = "pending")))
    /\ \A f \in Freqs, e \in Errors :
          ~is_stale(mark_failed([ws EXCEPT !.scrape_frequency = f], e, now), now)
    /\ (lastOp = "mark_failed" =>
          /\ ws.status = "failed"
          /\ ws.last_scraped # None
          /\ ws.last_scraped[1].whole <= now.whole
          /\ (now = ws.last_scraped[1] => ~is_stale(ws, now))
          /\ (ws.scrape_frequency = "manual" => ~is_stale(ws, now))
          /\ (ws.scrape_frequency # "manual" =>
                (is_stale(ws, now) = (ElapsedDays >= PolicyDays(ws.scrape_frequency)))))

\* a failed daily source one whole day after the attempt: stale again
C13_Witness ==
    /\ lastOp = "mark_failed"
    /\ ws.status = "failed"
    /\ ws.scrape_frequency = "daily"
    /\ ws.last_scraped # None
    /\ ElapsedDays = 1
    /\ is_stale(ws, now)

----------------------------------------------------------------------------
(* Specification SpecStale: is_stale read on a WebSource with any          *)
(* last_scraped, at any clock value, for any scrape_frequency string.      *)

StaleFreqs == Freqs \cup {"Weekly", ""}
Clocks == {DateTime(w, u) : w \in 0..(MaxDays * TicksPerDay), u \in 0..(MicroPerTick - 1)}
Stamps == {DateTime(w, u) : w \in 0..MaxCallTick, u \in 0..(MicroPerTick - 1)}

InitStale ==
    /\ now \in Clocks
    /\ \E f \in StaleFreqs, ls \in {None} \cup {Some(d) : d \in Stamps} :
          ws = [NewWebSource(Url, f) EXCEPT !.last_scraped = ls]
    /\ lastOp = "init"
    /\ prev = "pending"
    /\ lastArgs = <<>>
    /\ session = NoSession
    /\ chunk = NoChunk
    /\ result = NoResult
    /\ pc = "stale"
    /\ ret = NoRet

ReadIsStale ==
    /\ pc = "stale"
    /\ ret' = Some(is_stale(ws, now))
    /\ pc' = "stale_read"
    /\ UNCHANGED <<now, ws, lastOp, prev, lastArgs, session, chunk, result>>

NextStale == ReadIsStale

SpecStale == InitStale /\ [][NextStale]_vars

\* the number d of whole days with last + d days <= clock < last + (d+1) days
WholeDaysSince(last, clock) ==
    LET day  == TicksPerDay * MicroPerTick
        diff == TimeDiff(clock, last)
    IN  CHOOSE d \in (-(MaxDays + 2))..(MaxDays + 2) :
            d * day <= diff /\ diff < (d + 1) * day

StalePolicy(w, clock) ==
    IF w.last_scraped = None
    THEN TRUE
    ELSE LET age == WholeDaysSince(w.last_scraped[1], clock)
             f   == w.scrape_frequency
         IN  CASE f = "manual"  -> FALSE
               [] f = "daily"   -> age >= 1
               [] f = "weekly"  -> age >= 7
               [] f = "monthly" -> age >= 30
               [] OTHER         -> age >= 30

\* C3: is_stale is true when last_scraped is unset, false for 'manual' at any
\* age, and otherwise true exactly when the whole days since last_scraped
\* reach the threshold: daily 1, weekly 7, monthly 30, any other string 30.
C3_IsStalePolicy ==
    pc = "stale_read" => ret = Some(StalePolicy(ws, now))

C3_Witness ==
    /\ pc = "stale_read"
    /\ ws.scrape_frequency = "weekly"
    /\ ws.last_scraped = Some(DateTime(1, 1))
    /\ now = DateTime(1 + 7 * TicksPerDay, 1)
    /\ ret = Some(TRUE)

----------------------------------------------------------------------------
(* Specification SpecSession: one ConversationSession, messages appended   *)
(* as the clock advances, and the context window read.                     *)

SessionId == "s-1"
Roles == {"user", "assistant"}
TokenCounts == {None, Some(0), Some(3)}
Counts == 0..(MaxMessages + 1)

\* created_at and last_activity are two successive reads of datetime.now()
InitSession ==
    /\ \E c \in 0..1, a \in 0..1 :
          /\ c <= a
          /\ now = DateTime(a, 0)
          /\ session = ConversationSession(SessionId, <<>>, DateTime(c, 0), DateTime(a, 0), EmptyMeta)
    /\ ws = NoWebSource
    /\ lastOp = "init"
    /\ prev = NoSession
    /\ lastArgs = <<>>
    /\ chunk = NoChunk
    /\ result = NoResult
    /\ pc = "session"
    /\ ret = NoRet

\* the caller builds the message (timestamp defaulted to now) and appends it
AddMessage(role, token_count) ==
    /\ Len(session.messages) < MaxMessages
    /\ LET m == ConversationMessage(role, "hello", now, <<>>, <<>>, EmptyMeta, token_count)
       IN  /\ session' = add_message(session, m, now)
           /\ lastArgs' = <<m, now>>
    /\ lastOp' = "add_message"
    /\ prev' = session
    /\ ret' = NoRet
    /\ UNCHANGED <<now, ws, chunk, result, pc>>

GetRecentMessages(count) ==
    /\ ret' = get_recent_messages(session, count)
    /\ lastOp' = "get_recent_messages"
    /\ lastArgs' = <<count>>
    /\ prev' = session
    /\ UNCHANGED <<now, ws, session, chunk, result, pc>>

TickSession ==
    /\ now.whole < MaxSessionTick
    /\ now' = [now EXCEPT !.whole = @ + 1]
    /\ UNCHANGED <<ws, lastOp, prev, lastArgs, session, chunk, result, pc, ret>>

NextSession ==
    \/ \E r \in Roles, tc \in TokenCounts : AddMessage(r, tc)
    \/ \E k \in Counts : GetRecentMessages(k)
    \/ TickSession

SpecSession == InitSession /\ [][NextSession]_vars

Min(a, b) == IF a <= b THEN a ELSE b

\* the last k elements of seq, in order
LastK(seq, k) == [i \in 1..k |-> seq[Len(seq) - k + i]]

\* C5: get_recent_messages(count), count >= 0, returns exactly the last
\* min(count, n) messages in their original order and leaves the session as
\* it was.
C5_RecentIsSuffix ==
    lastOp = "get_recent_messages" =>
        /\ ret = LastK(session.messages, Min(lastArgs[1], Len(session.messages)))
        /\ session = prev

\* the same statement for count >= 1
C5_RecentIsSuffixPositive ==
    lastOp = "get_recent_messages" /\ lastArgs[1] >= 1 =>
        /\ ret = LastK(session.messages, Min(lastArgs[1], Len(session.messages)))
        /\ session = prev

LeqTime(a, b) == TimeDiff(b, a) >= 0

\* C6: add_message appends the message after an unchanged prefix and sets
\* last_activity to the time of the call; last_activity never decreases and
\* is >= created_at; created_at and session_id never change.
C6_AppendOnly ==
    /\ LeqTime(session.created_at, session.last_activity)
    /\ LeqTime(session.last_activity, now)
    /\ session.session_id = SessionId
    /\ (lastOp = "add_message" =>
          LET n == Len(session.messages)
          IN  /\ n = Len(prev.messages) + 1
              /\ SubSeq(session.messages, 1, n - 1) = prev.messages
              /\ session.messages[n] = lastArgs[1]
              /\ session.last_activity = lastArgs[2]
              /\ LeqTime(prev.last_activity, session.last_activity)
              /\ session.created_at = prev.created_at
              /\ session.session_id = prev.session_id)

C6_Witness ==
    /\ lastOp = "add_message"
    /\ Len(session.messages) = 3
    /\ session.messages[1].role = "user"
    /\ session.messages[3].role = "assistant"
    /\ session.created_at = DateTime(0, 0)
    /\ prev.last_activity = DateTime(1, 0)
    /\ session.last_activity = DateTime(2, 0)

\* sum over the positions of the log, an unset token_count counted as 0
RECURSIVE TokenFold(_, _)
TokenFold(msgs, idx) ==
    IF idx = {}
    THEN 0
    ELSE LET i == CHOOSE j \in idx : TRUE
             t == msgs[i].token_count
         IN  (IF t = None THEN 0 ELSE t[1]) + TokenFold(msgs, idx \ {i})

\* C7: message_count is the length of the log and total_tokens the sum of the
\* token counts, unset counted as 0; add_message(m) raises message_count by
\* 1 and total_tokens by (m.token_count or 0).
C7_CountsAreFolds ==
    /\ message_count(session) = Cardinality(DOMAIN session.messages)
    /\ total_tokens(session) = TokenFold(session.messages, DOMAIN session.messages)
    /\ (lastOp = "init" => message_count(session) = 0 /\ total_tokens(session) = 0)
    /\ (lastOp = "add_message" =>
          /\ message_count(session) = message_count(prev) + 1
          /\ total_tokens(session) =
                total_tokens(prev) +
                (IF lastArgs[1].token_count = None THEN 0 ELSE lastArgs[1].token_count[1]))

C7_Witness ==
    /\ lastOp = "add_message"
    /\ message_count(session) = 3
    /\ session.messages[2].token_count = None
    /\ total_tokens(session) = 6

----------------------------------------------------------------------------
(* Specification SpecSearch: two SearchResults classified.                 *)

Scores == (-ScoreBelow)..(10000 + ScoreAbove)

InitSearch ==
    /\ \E sc \in Scores, d \in {0, 1} :
          result = << SearchResult("alpha", "a.pdf", sc, "c1", EmptyMeta, "PDF", "LOCAL_DOCUMENT", DateTime(0, 0)),
                      SearchResult("beta", "https://x", sc + d, "", {<<"k", "v">>}, "WEB", "WEB_SCRAPE", DateTime(1, 1)) >>
    /\ now = DateTime(1, 1)
    /\ ws = NoWebSource
    /\ lastOp = "init"
    /\ prev = "pending"
    /\ lastArgs = <<>>
    /\ session = NoSession
    /\ chunk = NoChunk
    /\ pc = "search"
    /\ ret = NoRet

Classify ==
    /\ pc = "search"
    /\ ret' = [i \in 1..2 |-> [relevance_level |-> relevance_level(result[i]),
                                is_relevant |-> is_relevant(result[i])]]
    /\ pc' = "classified"
    /\ UNCHANGED <<now, ws, lastOp, prev, lastArgs, session, chunk, result>>

NextSearch == Classify

SpecSearch == InitSearch /\ [][NextSearch]_vars

\* the tier table of the claim, one tier per score interval
TierOf(score) ==
    CHOOSE t \in {"Very High", "High", "Medium", "Low", "Very Low"} :
        \/ t = "Very High" /\ score >= 9000
        \/ t = "High"      /\ score >= 8000 /\ score < 9000
        \/ t = "Medium"    /\ score >= 7000 /\ score < 8000
        \/ t = "Low"       /\ score >= 5000 /\ score < 7000
        \/ t = "Very Low"  /\ score < 5000

\* C8: relevance_level is Very High from 0.9, High from 0.8, Medium from 0.7,
\* Low from 0.5 and Very Low below; is_relevant is score >= 0.7, that is a
\* tier of Very High, High or Medium; equal scores give equal tier and flag.
C8_RelevanceTiers ==
    pc = "classified" =>
        /\ \A i \in 1..2 :
              /\ ret[i].relevance_level = TierOf(result[i].score)
              /\ ret[i].is_relevant = (result[i].score >= 7000)
              /\ ret[i].is_relevant = (ret[i].relevance_level \in {"Very High", "High", "Medium"})
        /\ (result[1].score = result[2].score => ret[1] = ret[2])

C8_Witness ==
    /\ pc = "classified"
    /\ result[1].score = 9000
    /\ result[2].score = 9000
    /\ result[1].content # result[2].content
    /\ ret[1].relevance_level = "Very High"
    /\ ret[2].is_relevant

----------------------------------------------------------------------------
(* Specification SpecChunk: a DocumentChunk constructed from the caller's  *)
(* arguments; an argument the caller leaves out is None.                   *)

ChunkContents == {<<>>, <<"a">>, <<"a", " ", "b">>}
SourceFiles == {<<>>, <<"a", ".", "p", "d", "f">>, <<"a", ".", "P", "D", "F">>, <<"d", "/", "b", ".", "m", "d">>, <<"n", ".", "t", "x", "t">>, <<"i", ".", "h", "t", "m", "l">>, <<"i", ".", "H", "t", "m">>, <<"r", ".", "d", "o", "c", "x">>, <<"R", "E", "A", "D", "M", "E">>, <<".", "p", "d", "f">>, <<"a", ".", "p", "d", "f", "/", "x">>, <<"x", ".", "t", "x", "t", "/">>, <<"a", ".", "c", "s", "v">>, <<"a", ".">>}
StartChars == 0..MaxStartChar
EndCharArgs == {None} \cup {Some(e) : e \in 0..(MaxStartChar + 3)}
DocumentTypeArgs == {None} \cup {Some(t) : t \in DocumentTypeMembers}

ChunkArgs ==
    [content : ChunkContents, source_file : SourceFiles, start_char : StartChars,
     end_char : EndCharArgs, document_type : DocumentTypeArgs]

NewDocumentChunk(a, clock) ==
    DocumentChunk(a.content, a.source_file, "c-1", a.start_char, a.end_char, EmptyMeta, None, a.document_type, None, clock)

InitChunk ==
    /\ lastArgs \in ChunkArgs
    /\ chunk = NoChunk
    /\ now = DateTime(0, 0)
    /\ ws = NoWebSource
    /\ lastOp = "init"
    /\ prev = "pending"
    /\ session = NoSession
    /\ result = NoResult
    /\ pc = "chunk"
    /\ ret = NoRet

Construct ==
    /\ pc = "chunk"
    /\ chunk' = Some(NewDocumentChunk(lastArgs, now))
    /\ pc' = "constructed"
    /\ UNCHANGED <<now, ws, lastOp, prev, lastArgs, session, result, ret>>

NextChunk == Construct

SpecChunk == InitChunk /\ [][NextChunk]_vars

\* C9: a DocumentChunk constructed without end_char has end_char =
\* start_char + length(content), for every content, the empty one included,
\* hence end_char >= start_char; an end_char given by the caller is kept.
C9_EndCharDerived ==
    pc = "constructed" =>
        IF lastArgs.end_char = None
        THEN /\ chunk[1].end_char = lastArgs.start_char + Len(lastArgs.content)
             /\ chunk[1].end_char >= chunk[1].start_char
        ELSE chunk[1].end_char = lastArgs.end_char[1]

\* the part of C9 the code keeps: non-empty content without end_char, and a
\* non-zero end_char given by the caller
C9_EndCharDerivedNonEmpty ==
    pc = "constructed" =>
        /\ (lastArgs.end_char = None /\ lastArgs.content # <<>> =>
               chunk[1].end_char = lastArgs.start_char + Len(lastArgs.content))
        /\ (lastArgs.end_char # None /\ lastArgs.end_char # Some(0) =>
               chunk[1].end_char = lastArgs.end_char[1])

\* the file name of path ends with ext, after something that is not a '/'
HasExtension(path, ext) ==
    LET p == Lower(StripTrailingSlashes(path))
        n == Len(p)
        k == Len(ext)
    IN  /\ n > k
        /\ SubSeq(p, n - k + 1, n) = ext
        /\ p[n - k] # "/"

\* the fixed table of the extensions
TypeOfExtension(path) ==
    CASE HasExtension(path, <<".", "p", "d", "f">>)      -> "PDF"
      [] HasExtension(path, <<".", "d", "o", "c", "x">>) -> "DOCX"
      [] HasExtension(path, <<".", "m", "d">>)           -> "MD"
      [] HasExtension(path, <<".", "t", "x", "t">>)      -> "TXT"
      [] HasExtension(path, <<".", "h", "t", "m", "l">>) -> "WEB"
      [] HasExtension(path, <<".", "h", "t", "m">>)      -> "WEB"
      [] OTHER                                           -> "UNKNOWN"

\* construction returned a chunk whose document_type is a member of the enum
ConstructionSucceeds ==
    chunk # NoChunk /\ chunk[1].document_type \in DocumentTypeMembers

TypeInferredWhenAbsent ==
    lastArgs.document_type = None =>
        chunk[1].document_type = TypeOfExtension(lastArgs.source_file)

\* C12: without a document_type argument the chunk's document_type is the
\* table's entry for the lower-cased extension of source_file (unknown for
\* every other, missing or empty extension), construction never fails
\* because of the path, and a document_type given by the caller is never
\* overwritten by inference.
C12_TypeDerivation ==
    pc = "constructed" =>
        /\ ConstructionSucceeds
        /\ TypeInferredWhenAbsent
        /\ (lastArgs.document_type # None =>
               chunk[1].document_type = lastArgs.document_type[1])

\* the part of C12 the code keeps: a document_type other than UNKNOWN given
\* by the caller stays, and UNKNOWN given by the caller is treated like no
\* argument.
C12_TypeDerivationExceptUnknown ==
    pc = "constructed" =>
        /\ ConstructionSucceeds
        /\ TypeInferredWhenAbsent
        /\ (lastArgs.document_type \notin {None, Some("UNKNOWN")} =>
               chunk[1].document_type = lastArgs.document_type[1])
        /\ (lastArgs.document_type = Some("UNKNOWN") =>
               chunk[1].document_type = TypeOfExtension(lastArgs.source_file))

----------------------------------------------------------------------------
(* Specification SpecRoundTrip: an entity of one of the five classes is    *)
(* constructed, changed by its mutators, written by to_dict and read back  *)
(* by from_dict.  pc is <<class, stage>>; the entity is in chunk, in       *)
(* lastArgs (a ConversationMessage), in result, in ws or in session.       *)

\* microsecond fields a timestamp is tried with: none, and the largest
RtMicros == {0, MicroPerTick - 1}
RtClocks == {DateTime(w, u) : w \in 0..1, u \in RtMicros}
RtSourceFiles == {<<>>, <<"a", ".", "p", "d", "f">>, <<"a", ".", "P", "D", "F">>, <<"R", "E", "A", "D", "M", "E">>}
RtMetadata == {EmptyMeta, {<<"lang", "en">>}}
RtScores == {-1, 0, 4999, 7000, 10001}

InitRoundTripChunk ==
    /\ \E c \in ChunkContents, f \in RtSourceFiles, st \in StartChars, e \in EndCharArgs, md \in RtMetadata, em \in {None, Some(<<1, 2>>)}, dt \in {None, Some("PDF"), Some("MD")}, cs \in {None, Some("MANUAL")}, t \in {DateTime(0, 0), DateTime(1, 1)} :
          chunk = Some(DocumentChunk(c, f, "c-1", st, e, md, em, dt, cs, t))
    /\ now = DateTime(1, 1)
    /\ ws = NoWebSource /\ session = NoSession /\ result = NoResult /\ lastArgs = <<>>
    /\ pc = <<"chunk", "live">>

InitRoundTripMessage ==
    /\ \E r \in Roles, t \in RtClocks, id \in {<<>>, <<"m", "1">>}, src \in {<<>>, <<"a.pdf", "b.md">>}, md \in RtMetadata, tc \in TokenCounts :
          lastArgs = <<ConversationMessage(r, "hello", t, id, src, md, tc)>>
    /\ now \in RtClocks
    /\ ws = NoWebSource /\ session = NoSession /\ result = NoResult /\ chunk = NoChunk
    /\ pc = <<"message", "live">>

InitRoundTripSearch ==
    /\ \E sc \in RtScores, id \in {"", "c-1"}, md \in RtMetadata, dt \in DocumentTypeMembers, cs \in ContentSourceMembers, t \in RtClocks :
          result = <<SearchResult("alpha", "a.pdf", sc, id, md, dt, cs, t)>>
    /\ now = DateTime(1, 1)
    /\ ws = NoWebSource /\ session = NoSession /\ chunk = NoChunk /\ lastArgs = <<>>
    /\ pc = <<"search", "live">>

InitRoundTripWeb ==
    /\ \E f \in {"weekly", "hourly"}, st \in {"pending", "excluded"}, md \in RtMetadata, n \in {0, 4} :
          ws = WebSource(Url, "", "", None, f, st, "documentation", 0, md, "", n)
    /\ now \in {DateTime(0, u) : u \in RtMicros}
    /\ session = NoSession /\ result = NoResult /\ chunk = NoChunk /\ lastArgs = <<>>
    /\ pc = <<"web", "live">>

InitRoundTripSession ==
    /\ \E c \in RtClocks, a \in RtClocks, md \in RtMetadata :
          /\ LeqTime(c, a)
          /\ now = a
          /\ session = ConversationSession(SessionId, <<>>, c, a, md)
    /\ ws = NoWebSource /\ result = NoResult /\ chunk = NoChunk /\ lastArgs = <<>>
    /\ pc = <<"session", "live">>

InitRoundTrip ==
    /\ \/ InitRoundTripChunk
       \/ InitRoundTripMessage
       \/ InitRoundTripSearch
       \/ InitRoundTripWeb
       \/ InitRoundTripSession
    /\ lastOp = "init"
    /\ prev = IF pc[1] = "session" THEN NoSession ELSE ws.status
    /\ ret = NoRet

RtMarkScraped(c, t, q) == pc = <<"web", "live">> /\ MarkScraped(c, t, q)

RtMarkFailed(e) == pc = <<"web", "live">> /\ MarkFailed(e)

RtAddMessage(r, tc) ==
    /\ pc = <<"session", "live">>
    /\ Len(session.messages) < MaxRoundTripMessages
    /\ AddMessage(r, tc)

RtTick(u) ==
    /\ pc \in {<<"web", "live">>, <<"session", "live">>}
    /\ now.whole < MaxRoundTripTick
    /\ now' = DateTime(now.whole + 1, u)
    /\ UNCHANGED <<ws, lastOp, prev, lastArgs, session, chunk, result, pc, ret>>

\* the entity under test
Entity ==
    CASE pc[1] = "chunk"   -> chunk[1]
      [] pc[1] = "message" -> lastArgs[1]
      [] pc[1] = "search"  -> result[1]
      [] pc[1] = "web"     -> ws
      [] pc[1] = "session" -> session

to_dict(kind, x, clock) ==
    CASE kind = "chunk"   -> DocumentChunk_to_dict(x)
      [] kind = "message" -> ConversationMessage_to_dict(x)
      [] kind = "search"  -> SearchResult_to_dict(x)
      [] kind = "web"     -> WebSource_to_dict(x, clock)
      [] kind = "session" -> ConversationSession_to_dict(x)

from_dict(kind, data, clock) ==
    CASE kind = "chunk"   -> DocumentChunk_from_dict(data, clock)
      [] kind = "message" -> ConversationMessage_from_dict(data, clock)
      [] kind = "search"  -> SearchResult_from_dict(data, clock)
      [] kind = "web"     -> WebSource_from_dict(data)
      [] kind = "session" -> ConversationSession_from_dict(data, clock)

Encode ==
    /\ pc[2] = "live"
    /\ ret' = to_dict(pc[1], Entity, now)
    /\ pc' = <<pc[1], "encoded">>
    /\ UNCHANGED <<now, ws, lastOp, prev, lastArgs, session, chunk, result>>

Decode ==
    /\ pc[2] = "encoded"
    /\ ret' = from_dict(pc[1], ret, now)
    /\ pc' = <<pc[1], "decoded">>
    /\ UNCHANGED <<now, ws, lastOp, prev, lastArgs, session, chunk, result>>

NextRoundTrip ==
    \/ \E c \in Contents, t \in Titles, q \in Qualities : RtMarkScraped(c, t, q)
    \/ \E e \in Errors : RtMarkFailed(e)
    \/ \E r \in Roles, tc \in {None, Some(3)} : RtAddMessage(r, tc)
    \/ \E u \in RtMicros : RtTick(u)
    \/ Encode
    \/ Decode

SpecRoundTrip == InitRoundTrip /\ [][NextRoundTrip]_vars

\* the derived keys of a record, overwritten with values to_dict never writes
DerivedKeys ==
    {"length", "word_count", "relevance_level", "is_relevant", "is_stale", "is_high_quality", "status_emoji", "message_count", "total_tokens"}

Scrambled(data) ==
    [k \in DOMAIN data |-> IF k \in DerivedKeys THEN <<"?">> ELSE data[k]]

\* C10: from_dict(to_dict(x)) succeeds and equals x on every stored field, for
\* each of the five classes and every instance reached by construction and
\* the mutators; the derived keys of the record do not matter to from_dict,
\* and the constructor's normalisation leaves end_char, document_type and
\* message_id as they were.
C10_RoundTrip ==
    /\ (pc[2] = "decoded" => ret.ok /\ ret.value = Entity)
    /\ (pc[2] = "encoded" =>
          /\ from_dict(pc[1], Scrambled(ret), now) = from_dict(pc[1], ret, now)
          /\ DOMAIN from_dict(pc[1], ret, now).value = DOMAIN Entity)

C10_Witness ==
    /\ pc = <<"session", "decoded">>
    /\ Len(session.messages) = 2
    /\ session.messages[1].token_count = None
    /\ session.messages[2].timestamp = DateTime(1, 1)
    /\ session.created_at = DateTime(0, 0)
    /\ session.last_activity = DateTime(1, 1)
    /\ ret.ok
    /\ ret.value = session

----------------------------------------------------------------------------
(* Specification SpecDecode: from_dict on a record that to_dict wrote and  *)
(* that then lost a key or had a value replaced.  lastArgs is the change:  *)
(* <<"drop", key>>, <<"set", key, value>>, or <<"nested", i, change>> for  *)
(* a change to the i-th message record of a session.                       *)

\* data without key k
DropKey(data, k) == [x \in (DOMAIN data) \ {k} |-> data[x]]

SetKey(data, k, v) == [x \in DOMAIN data |-> IF x = k THEN v ELSE data[x]]

RECURSIVE Changed(_, _)
Changed(data, change) ==
    CASE change[1] = "drop"   -> DropKey(data, change[2])
      [] change[1] = "set"    -> SetKey(data, change[2], change[3])
      [] change[1] = "nested" ->
            SetKey(data, "messages",
                   [i \in 1..Len(data.messages) |->
                       IF i = change[2]
                       THEN Changed(data.messages[i], change[3])
                       ELSE data.messages[i]])

Garbage == <<"g", "a", "r", "b", "a", "g", "e">>

\* values from_dict cannot read, per key
BadValues(kind) ==
    CASE kind = "chunk"   -> {<<"document_type", "bogus">>, <<"document_type", "PDF">>, <<"content_source", "bogus">>, <<"content_source", "">>, <<"created_at", Garbage>>}
      [] kind = "search"  -> {<<"document_type", "bogus">>, <<"document_type", "">>, <<"content_source", "MANUAL">>, <<"timestamp", Garbage>>}
      [] kind = "message" -> {<<"timestamp", Garbage>>}
      [] kind = "web"     -> {<<"last_scraped", Garbage>>, <<"last_scraped", EmptyStr>>}
      [] kind = "session" -> {<<"created_at", Garbage>>, <<"last_activity", Garbage>>}

Changes(kind, data) ==
    {<<"drop", k>> : k \in DOMAIN data}
    \cup {<<"set", b[1], b[2]>> : b \in BadValues(kind)}
    \cup (IF kind = "session"
          THEN {<<"nested", i, c>> : i \in 1..Len(data.messages), c \in {<<"drop", "role">>, <<"drop", "content">>, <<"drop", "token_count">>, <<"set", "timestamp", Garbage>>}}
          ELSE {})

DecodeChunks ==
    {DocumentChunk(c, f, "c-1", st, None, md, None, dt, None, DateTime(1, 1)) : c \in ChunkContents, f \in RtSourceFiles, st \in StartChars, md \in RtMetadata, dt \in {None, Some("MD")}}

DecodeMessages ==
    {ConversationMessage(r, "hello", t, id, <<>>, md, tc) : r \in Roles, t \in RtClocks, id \in {<<>>, <<"m", "1">>}, md \in RtMetadata, tc \in TokenCounts}

DecodeResults ==
    {SearchResult("alpha", "a.pdf", sc, "c-1", md, dt, "FORUM_POST", DateTime(0, 1)) : sc \in RtScores, md \in RtMetadata, dt \in DocumentTypeMembers}

DecodeWebSources ==
    LET fresh == {WebSource(Url, "", "", None, f, st, "documentation", 0, md, "", 4) : f \in {"weekly", "monthly"}, st \in {"pending", "excluded"}, md \in RtMetadata}
    IN  fresh
        \cup {mark_scraped(w, "body text", "Title", 8200, t) : w \in fresh, t \in RtClocks}
        \cup {mark_failed(w, "timeout", t) : w \in fresh, t \in RtClocks}

DecodeSessions ==
    LET empty == {ConversationSession(SessionId, <<>>, DateTime(0, 0), t, md) : t \in RtClocks, md \in RtMetadata}
        msg(r, tc, t) == ConversationMessage(r, "hello", t, <<>>, <<>>, EmptyMeta, tc)
        one   == {add_message(e, msg(r, tc, e.last_activity), e.last_activity) : e \in empty, r \in Roles, tc \in TokenCounts}
        two   == {add_message(e, msg("assistant", Some(3), DateTime(1, 1)), DateTime(1, 1)) : e \in one}
    IN  empty \cup one \cup two

InitDecode ==
    /\ \/ /\ pc = <<"chunk", "encoded">>
          /\ \E x \in DecodeChunks : chunk = Some(x)
          /\ ws = NoWebSource /\ session = NoSession /\ result = NoResult
       \/ /\ pc = <<"message", "encoded">>
          /\ \E x \in DecodeMessages : result = <<x>>
          /\ ws = NoWebSource /\ session = NoSession /\ chunk = NoChunk
       \/ /\ pc = <<"search", "encoded">>
          /\ result \in {<<x>> : x \in DecodeResults}
          /\ ws = NoWebSource /\ session = NoSession /\ chunk = NoChunk
       \/ /\ pc = <<"web", "encoded">>
          /\ ws \in DecodeWebSources
          /\ session = NoSession /\ result = NoResult /\ chunk = NoChunk
       \/ /\ pc = <<"session", "encoded">>
          /\ session \in DecodeSessions
          /\ ws = NoWebSource /\ result = NoResult /\ chunk = NoChunk
    /\ now = DateTime(1, 1)
    /\ lastOp = "init"
    /\ prev = "pending"
    /\ \E written \in {to_dict(pc[1], IF pc[1] = "message" THEN result[1] ELSE Entity, now)} :
          \E change \in Changes(pc[1], written) :
              /\ lastArgs = IF pc[1] = "message" THEN <<result[1], change>> ELSE <<{}, change>>
              /\ ret = Changed(written, change)

SpecDecode == InitDecode /\ [][Decode]_vars

\* the record that Decode read
DecodeInput == Changed(to_dict(pc[1], Entity, now), lastArgs[2])

RequiredKeys(kind) ==
    CASE kind = "chunk"   -> {"content", "source_file", "chunk_id"}
      [] kind = "web"     -> {"url"}
      [] kind = "session" -> {"session_id"}
      [] kind = "message" -> {"role", "content"}
      [] kind = "search"  -> {"content", "source", "score"}

\* the defaults of absent optional keys
OptionalDefaults(kind) ==
    CASE kind = "chunk" -> [metadata |-> EmptyMeta, start_char |-> 0]
      [] kind = "web"   -> [metadata |-> EmptyMeta, status |-> "pending", scrape_frequency |-> "monthly", last_scraped |-> None]
      [] OTHER          -> [metadata |-> EmptyMeta]

\* some message record of the session record fails to decode
NestedMessageFails(data) ==
    /\ "messages" \in DOMAIN data
    /\ \E i \in 1..Len(data.messages) : ~ConversationMessage_from_dict(data.messages[i], now).ok

\* from_dict returned an entity with every field, or none
AllOrNothing ==
    IF ret.ok THEN DOMAIN ret.value = DOMAIN Entity ELSE ret.value = <<>>

RequiredAndEnumsFail ==
    LET change == lastArgs[2]
    IN  /\ (change[1] = "drop" /\ change[2] \in RequiredKeys(pc[1])) => ~ret.ok
        /\ (change[1] = "set" /\ change[2] \in {"document_type", "content_source"}) => ~ret.ok
        /\ (pc[1] = "session" /\ NestedMessageFails(DecodeInput)) => ~ret.ok

AbsentOptionalDefaults ==
    LET change == lastArgs[2]
    IN  (change[1] = "drop" /\ change[2] \in DOMAIN OptionalDefaults(pc[1]))
            => ret.ok /\ ret.value = [Entity EXCEPT ![change[2]] = OptionalDefaults(pc[1])[change[2]]]

\* a present value that from_dict cannot read does not come out as the default
NoDefaultForInvalid ==
    LET change == lastArgs[2]
    IN  (change[1] = "set" /\ change[2] \in DOMAIN OptionalDefaults(pc[1]))
            => ~(ret.ok /\ ret.value[change[2]] = OptionalDefaults(pc[1])[change[2]])

\* C11: decoding is all-or-nothing: from_dict fails when a required key is
\* absent or document_type / content_source is outside the enum's values,
\* a session fails when a nested message fails, defaults are applied to
\* absent optional keys, and never to a present but invalid value.
C11_DecodeAllOrNothing ==
    pc[2] = "decoded" =>
        /\ AllOrNothing
        /\ RequiredAndEnumsFail
        /\ AbsentOptionalDefaults
        /\ NoDefaultForInvalid

\* the same with a present last_scraped of '' set aside: every other part
\* of the statement holds, and a malformed timestamp that is not empty
\* fails too.
C11_ExceptEmptyLastScraped ==
    (pc[2] = "decoded" /\ lastArgs[2] # <<"set", "last_scraped", EmptyStr>>) =>
        /\ AllOrNothing
        /\ RequiredAndEnumsFail
        /\ AbsentOptionalDefaults
        /\ NoDefaultForInvalid
        /\ lastArgs[2][1] = "set" => ~ret.ok

\* '' for last_scraped decodes, to a source never scraped
C11_EmptyLastScrapedDecodes ==
    (pc[2] = "decoded" /\ lastArgs[2] = <<"set", "last_scraped", EmptyStr>>) =>
        ret.ok /\ ret.value = [ws EXCEPT !.last_scraped = None]

====
